---- MODULE Spec2Model ----
(***************************************************************************)
(* Model of the Contracts class (src/unnamed/part_000): the client that     *)
(* submits rollup proofs and deposits to the RollupProcessor contract,      *)
(* caches the ERC20 handles of the supported assets and rebuilds rollup     *)
(* blocks from the calldata of confirmed transactions.                      *)
(*                                                                          *)
(* Buffers are sequences of bytes (0..255).  JavaScript strings that hold   *)
(* hex data are sequences of characters, where the characters 0..15 are the *)
(* hex digits '0'..'f' and CharX is the letter 'x' of the "0x" prefix.      *)
(***************************************************************************)
EXTENDS Integers, Sequences, FiniteSets, TLC

VARIABLES
    head,            \* chain: number of the latest block
    txs,             \* chain: every transaction the node accepted, by number
    events,          \* chain: the RollupProcessed logs, in chain order
    nextRollupId,    \* chain: RollupProcessor.nextRollupId
    supportedAssets, \* chain: RollupProcessor.supportedAssets with permit flags
    erc20Contracts,  \* Contracts.erc20Contracts
    initTask,        \* the running init() call
    ssaTask,         \* the running setSupportedAsset() call
    reader,          \* the running getRollupBlocksFrom() call
    lastOp,          \* outcome of the last finished state-changing operation
    submitted,       \* per accepted transaction: the arguments and result of the call
    sigIn,           \* argument of solidityFormatSignatures
    sigOut           \* its return value

vars == <<head, txs, events, nextRollupId, supportedAssets, erc20Contracts,
          initTask, ssaTask, reader, lastOp, submitted, sigIn, sigOut>>

None == "none"

----------------------------------------------------------------------------
(* Bounds *)

\* signatures per call
MaxSigs == 2
\* transactions the node accepts
MaxTxs == 2
\* blocks mined
MaxHead == 2
\* transactions per block
MaxTxPerBlock == 2
\* assets registered on chain
MaxAssets == 2
\* init() invocations
MaxInits == 2
\* largest minConfirmations asked for
MaxConfirmations == 2

----------------------------------------------------------------------------
(* Buffers and hex strings *)

CharX == 16

Min(a, b) == IF a < b THEN a ELSE b
Max(a, b) == IF a > b THEN a ELSE b

\* Buffer.alloc(n)
Alloc(n) == [i \in 1..n |-> 0]

\* buf.slice(start, end) with 0-based, end-exclusive, clamped indexes
Slice(buf, start, end) ==
    LET e == Min(end, Len(buf))
        s == Min(start, e)
    IN  [i \in 1..(e - s) |-> buf[s + i]]

\* buf.slice(-1): the last byte, or the empty buffer
SliceLast(buf) == Slice(buf, Max(Len(buf) - 1, 0), Len(buf))

\* Buffer.concat(list)
RECURSIVE BufferConcat(_)
BufferConcat(list) ==
    IF list = <<>> THEN <<>> ELSE Head(list) \o BufferConcat(Tail(list))

\* buf.toString('hex'): two hex digits per byte, high nibble first
ToHexString(buf) ==
    [i \in 1..(2 * Len(buf)) |->
        IF i % 2 = 1 THEN buf[(i + 1) \div 2] \div 16 ELSE buf[i \div 2] % 16]

\* str.slice(2)
StrSlice2(str) == SubSeq(str, 3, Len(str))

\* number of leading characters of str that are hex digits
HexRun(str) ==
    IF \A i \in 1..Len(str) : str[i] <= 15
    THEN Len(str)
    ELSE (CHOOSE i \in 1..Len(str) : str[i] > 15 /\ \A j \in 1..(i - 1) : str[j] <= 15) - 1

\* Buffer.from(str, 'hex'): decodes digit pairs up to the first character
\* that is not a hex digit; an unpaired last digit is dropped
BufferFromHex(str) ==
    LET pairs == Min(HexRun(str), Len(str)) \div 2
    IN  [i \in 1..pairs |-> 16 * str[2 * i - 1] + str[2 * i]]

\* `0x${buf.toString('hex')}`
HexPrefixed(buf) == <<0, CharX>> \o ToHexString(buf)

----------------------------------------------------------------------------
(* Signature encoder *)

SigBodyLen == 64
SigPadLen == 31

\* v placed first in its word
FormatOneSignatureRightPad(currentSignature) ==
    LET v == SliceLast(currentSignature)
    IN  BufferConcat(<<Slice(currentSignature, 0, SigBodyLen), v, Alloc(SigPadLen)>>)

FormatOneSignature(currentSignature) ==
    LET v == SliceLast(currentSignature)
    IN  BufferConcat(<<Slice(currentSignature, 0, SigBodyLen), Alloc(SigPadLen), v>>)

solidityFormatSignatures(signatures) ==
    BufferConcat([i \in 1..Len(signatures) |-> FormatOneSignature(signatures[i])])

\* a signature buffer of len bytes whose bytes differ by position
MkSig(len, seed, v) ==
    [i \in 1..len |-> IF i = len THEN v ELSE (seed + 3 * i) % 256]

SigLens == {64, 65, 66}
SigSeeds == {0, 101}
SigVs == {27, 28}
SigPool == {MkSig(l, s, v) : l \in SigLens, s \in SigSeeds, v \in SigVs}

RECURSIVE SeqsUpTo(_, _)
SeqsUpTo(S, n) ==
    IF n = 0 THEN {<<>>}
    ELSE LET shorter == SeqsUpTo(S, n - 1)
         IN  shorter \cup {Append(s, x) : s \in {t \in shorter : Len(t) = n - 1}, x \in S}

----------------------------------------------------------------------------
(* ABI encoding of the processRollup call (ethers Contract / Interface) *)

WordLen == 32

Pow256(k) == IF k = 0 THEN 1 ELSE IF k = 1 THEN 256 ELSE IF k = 2 THEN 65536 ELSE 16777216

\* a uint256 below 2^32 as one big-endian 32-byte word
Word(n) ==
    [i \in 1..WordLen |-> IF i <= WordLen - 4 THEN 0 ELSE (n \div Pow256(WordLen - i)) % 256]

\* buf.readUInt32BE(offset)
ReadUInt32BE(buf, offset) ==
    buf[offset + 1] * 16777216 + buf[offset + 2] * 65536 + buf[offset + 3] * 256 + buf[offset + 4]

\* the uint256 stored in the word at byte offset
ReadWord(buf, offset) == ReadUInt32BE(buf, offset + WordLen - 4)

PadRight(buf) == buf \o Alloc((WordLen - (Len(buf) % WordLen)) % WordLen)

EncodeBytes(buf) == Word(Len(buf)) \o PadRight(buf)

EncodeUintArray(arr) ==
    Word(Len(arr)) \o BufferConcat([i \in 1..Len(arr) |-> Word(arr[i])])

\* ethers accepts a bytes argument as a "0x" string with an even number of
\* hex digits
IsHexString(str) ==
    /\ Len(str) >= 2
    /\ str[1] = 0
    /\ str[2] = CharX
    /\ Len(str) % 2 = 0
    /\ \A i \in 3..Len(str) : str[i] <= 15

ProcessRollupSelector == <<12, 34, 56, 78>>
SelectorLen == 4

\* calldata of processRollup(bytes proofData, bytes signatures,
\* uint256[] sigIndexes, bytes viewingKeys)
EncodeProcessRollup(proofHex, signatures, sigIndexes, viewingKeys) ==
    LET t1 == EncodeBytes(BufferFromHex(StrSlice2(proofHex)))
        t2 == EncodeBytes(signatures)
        t3 == EncodeUintArray(sigIndexes)
        t4 == EncodeBytes(viewingKeys)
        o1 == 4 * WordLen
        o2 == o1 + Len(t1)
        o3 == o2 + Len(t2)
        o4 == o3 + Len(t3)
    IN  ProcessRollupSelector \o Word(o1) \o Word(o2) \o Word(o3) \o Word(o4)
            \o t1 \o t2 \o t3 \o t4

\* the k-th argument (0-based) of the calldata, a bytes value, as the "0x"
\* string that Interface.parseTransaction returns in result.args
ParseBytesArg(data, k) ==
    LET body == Slice(data, SelectorLen, Len(data))
        off == ReadWord(body, k * WordLen)
        len == ReadWord(body, off)
    IN  HexPrefixed(Slice(body, off + WordLen, off + WordLen + len))

----------------------------------------------------------------------------
(* Proof binary format *)

RollupIdOffset == 28
RollupSizeOffset == 60

getRollupIdFromBuffer(proofData) == ReadUInt32BE(proofData, RollupIdOffset)
getRollupSizeFromBuffer(proofData) == ReadUInt32BE(proofData, RollupSizeOffset)

\* a proof buffer with the given rollup id and size, followed by public
\* inputs that are not a whole number of words
MkProof(id, size) == Word(id) \o Word(size) \o <<200 + size, 17, 255>>

----------------------------------------------------------------------------
(* The chain: node, mempool and RollupProcessor contract *)

DefaultSigner == "signer0"
Owner == DefaultSigner
OtherAccount == "0xb0b"

TokenA == "0xa11"
TokenB == "0xb22"
TokenAddresses == {TokenA, TokenB}

TxHashBytes(n) == [i \in 1..32 |-> (37 * n + 5 * i) % 256]
\* tx.hash
TxHash(n) == HexPrefixed(TxHashBytes(n))

BlockTimestamp(b) == 1000 + 15 * b

Pending(n) == txs[n].status = "pending"
PendingTxs == {n \in 1..Len(txs) : Pending(n)}

\* what the contract does with transaction n when it is mined in block b
ExecuteTx(st, n, b) ==
    LET t == st.txs[n]
        rid == getRollupIdFromBuffer(BufferFromHex(StrSlice2(ParseBytesArg(t.data, 0))))
    IN  CASE t.kind = "processRollup" /\ rid = st.nextRollupId ->
                [st EXCEPT !.txs[n].status = "mined", !.txs[n].blockNumber = b,
                           !.events = Append(@, [rollupId |-> rid, blockNumber |-> b, tx |-> n]),
                           !.nextRollupId = @ + 1]
          [] t.kind = "setSupportedAsset" /\ t.from = Owner ->
                [st EXCEPT !.txs[n].status = "mined", !.txs[n].blockNumber = b,
                           !.supportedAssets = Append(@, t.data)]
          [] t.kind = "depositPendingFunds" ->
                [st EXCEPT !.txs[n].status = "mined", !.txs[n].blockNumber = b]
          [] OTHER ->
                [st EXCEPT !.txs[n].status = "reverted", !.txs[n].blockNumber = b]

RECURSIVE ExecuteTxs(_, _, _)
ExecuteTxs(st, sel, b) ==
    IF sel = <<>> THEN st ELSE ExecuteTxs(ExecuteTx(st, Head(sel), b), Tail(sel), b)

IsInjective(f) == \A i, j \in DOMAIN f : f[i] = f[j] => i = j

\* a block with the transactions sel of the mempool, in that order
Mine(sel) ==
    /\ head < MaxHead
    /\ IsInjective(sel)
    /\ LET st == ExecuteTxs([txs |-> txs, events |-> events, nextRollupId |-> nextRollupId,
                             supportedAssets |-> supportedAssets], sel, head + 1)
       IN  /\ txs' = st.txs
           /\ events' = st.events
           /\ nextRollupId' = st.nextRollupId
           /\ supportedAssets' = st.supportedAssets
    /\ head' = head + 1
    /\ UNCHANGED <<erc20Contracts, initTask, ssaTask, reader, lastOp, submitted, sigIn, sigOut>>

\* an asset that somebody else registers with the contract
ExternalAddAsset(address, permit) ==
    /\ Len(supportedAssets) + Cardinality({n \in PendingTxs : txs[n].kind = "setSupportedAsset"})
          < MaxAssets
    /\ supportedAssets' = Append(supportedAssets, [address |-> address, permit |-> permit])
    /\ UNCHANGED <<head, txs, events, nextRollupId, erc20Contracts, initTask, ssaTask, reader,
                   lastOp, submitted, sigIn, sigOut>>

\* the node accepts a signed state-changing call and answers with its hash
SubmitTx(kind, from, data) ==
    Append(txs, [kind |-> kind, from |-> from, data |-> data, status |-> "pending",
                 blockNumber |-> 0])

----------------------------------------------------------------------------
(* Contracts: state-changing operations *)

RollupContractAddress == "0xr01"

\* signingAddress ? provider.getSigner(signingAddress) : provider.getSigner(0)
GetSigner(signingAddress) ==
    IF signingAddress # None THEN signingAddress ELSE DefaultSigner

\* the hash decoded with its "0x" prefix
TxIdFromHashUnsliced(hash) == BufferFromHex(hash)

\* Buffer.from(tx.hash.slice(2), 'hex')
TxIdFromHash(hash) == BufferFromHex(StrSlice2(hash))

NoOp == [op |-> None, args |-> None, calls |-> <<>>, outcome |-> None, ret |-> None, tx |-> 0]

\* the contract call that sendRollupProof issues
SendRollupProofCall(proofData, signatures, sigIndexes, viewingKeys, signingAddress) ==
    [method |-> "processRollup",
     signer |-> GetSigner(signingAddress),
     args |-> <<HexPrefixed(proofData), solidityFormatSignatures(signatures), sigIndexes,
                BufferConcat(viewingKeys)>>]

sendRollupProof(proofData, signatures, sigIndexes, viewingKeys, signingAddress, accepted) ==
    LET call == SendRollupProofCall(proofData, signatures, sigIndexes, viewingKeys, signingAddress)
        args == [proofData |-> proofData, viewingKeys |-> viewingKeys]
        n == Len(txs) + 1
    IN  /\ accepted => Len(txs) < MaxTxs
        /\ IF ~IsHexString(call.args[1])
           THEN \* the encoder rejects the argument: nothing is sent
                /\ accepted = FALSE
                /\ lastOp' = [op |-> "sendRollupProof", args |-> args, calls |-> <<>>,
                              outcome |-> "error", ret |-> None, tx |-> 0]
                /\ UNCHANGED <<txs, submitted>>
           ELSE IF accepted
           THEN /\ txs' = SubmitTx("processRollup", call.signer,
                                   EncodeProcessRollup(call.args[1], call.args[2],
                                                       call.args[3], call.args[4]))
                /\ lastOp' = [op |-> "sendRollupProof", args |-> args, calls |-> <<call>>,
                              outcome |-> "ok", ret |-> TxIdFromHash(TxHash(n)), tx |-> n]
                /\ submitted' = Append(submitted, [args |-> args, ret |-> lastOp'.ret])
           ELSE /\ lastOp' = [op |-> "sendRollupProof", args |-> args, calls |-> <<call>>,
                              outcome |-> "error", ret |-> None, tx |-> 0]
                /\ UNCHANGED <<txs, submitted>>
        /\ UNCHANGED <<head, events, nextRollupId, supportedAssets, erc20Contracts, initTask,
                       ssaTask, reader, sigIn, sigOut>>

\* permitArgs left out by the caller
NoPermitArgs == [undefined |-> TRUE]

\* the two call shapes exchanged
DepositCallsSwapped(assetId, amount, depositorAddress, permitArgs) ==
    IF permitArgs = NoPermitArgs
    THEN << [method |-> "depositPendingFundsPermit",
             signer |-> depositorAddress,
             args |-> <<assetId, amount, depositorAddress, RollupContractAddress>>] >>
    ELSE << [method |-> "depositPendingFunds",
             signer |-> depositorAddress,
             args |-> <<assetId, amount, depositorAddress>>] >>

\* the contract calls that depositPendingFunds issues
DepositCalls(assetId, amount, depositorAddress, permitArgs) ==
    IF permitArgs # NoPermitArgs
    THEN << [method |-> "depositPendingFundsPermit",
             signer |-> depositorAddress,
             args |-> <<assetId, amount, depositorAddress, RollupContractAddress,
                        permitArgs.approvalAmount, permitArgs.deadline,
                        permitArgs.signature.v, permitArgs.signature.r,
                        permitArgs.signature.s>>] >>
    ELSE << [method |-> "depositPendingFunds",
             signer |-> depositorAddress,
             args |-> <<assetId, amount, depositorAddress>>] >>

depositPendingFunds(assetId, amount, depositorAddress, permitArgs, accepted) ==
    LET calls == DepositCalls(assetId, amount, depositorAddress, permitArgs)
        args == [assetId |-> assetId, amount |-> amount, depositorAddress |-> depositorAddress,
                 permitArgs |-> permitArgs]
        n == Len(txs) + 1
    IN  /\ IF accepted
           THEN /\ Len(txs) < MaxTxs
                /\ txs' = SubmitTx("depositPendingFunds", calls[1].signer, calls)
                /\ lastOp' = [op |-> "depositPendingFunds", args |-> args, calls |-> calls,
                              outcome |-> "ok", ret |-> TxIdFromHash(TxHash(n)), tx |-> n]
                /\ submitted' = Append(submitted, [args |-> args, ret |-> lastOp'.ret])
           ELSE /\ lastOp' = [op |-> "depositPendingFunds", args |-> args, calls |-> calls,
                              outcome |-> "error", ret |-> None, tx |-> 0]
                /\ UNCHANGED <<txs, submitted>>
        /\ UNCHANGED <<head, events, nextRollupId, supportedAssets, erc20Contracts, initTask,
                       ssaTask, reader, sigIn, sigOut>>

\* new ethers.Contract(address, supportsPermit ? ERC20PermitABI : ERC20ABI, provider)
NewErc20Contract(address, supportsPermit) ==
    [address |-> address, abi |-> IF supportsPermit THEN "ERC20Permit" ELSE "ERC20"]

\* this.erc20Contracts.push(contract)
PushContract(contracts, contract) == Append(contracts, contract)

IdleSsa == [pc |-> "idle", assetAddress |-> None, supportsPermit |-> FALSE, call |-> None,
            tx |-> 0]

\* setSupportedAsset up to its await: the registration call is issued
setSupportedAssetCall(assetAddress, supportsPermit, signingAddress, accepted) ==
    LET call == [method |-> "setSupportedAsset", signer |-> GetSigner(signingAddress),
                 args |-> <<assetAddress, supportsPermit>>]
        n == Len(txs) + 1
        registered == Len(supportedAssets)
                        + Cardinality({k \in PendingTxs : txs[k].kind = "setSupportedAsset"})
    IN  /\ ssaTask.pc = "idle"
        /\ IF accepted
           THEN /\ Len(txs) < MaxTxs
                /\ registered < MaxAssets
                /\ txs' = SubmitTx("setSupportedAsset", call.signer,
                                   [address |-> assetAddress, permit |-> supportsPermit])
                /\ submitted' = Append(submitted,
                                       [args |-> call.args, ret |-> TxIdFromHash(TxHash(n))])
           ELSE UNCHANGED <<txs, submitted>>
        /\ ssaTask' = [pc |-> "awaiting", assetAddress |-> assetAddress,
                       supportsPermit |-> supportsPermit, call |-> call,
                       tx |-> IF accepted THEN n ELSE 0]
        /\ UNCHANGED <<head, events, nextRollupId, supportedAssets, erc20Contracts, initTask,
                       reader, lastOp, sigIn, sigOut>>

\* the call resolved with the transaction: push the handle, return the hash
setSupportedAssetResume ==
    /\ ssaTask.pc = "awaiting"
    /\ ssaTask.tx # 0
    /\ erc20Contracts' = PushContract(erc20Contracts,
                            NewErc20Contract(ssaTask.assetAddress, ssaTask.supportsPermit))
    /\ lastOp' = [op |-> "setSupportedAsset", args |-> ssaTask.call.args,
                  calls |-> <<ssaTask.call>>, outcome |-> "ok",
                  ret |-> TxIdFromHash(TxHash(ssaTask.tx)), tx |-> ssaTask.tx]
    /\ ssaTask' = IdleSsa
    /\ UNCHANGED <<head, txs, events, nextRollupId, supportedAssets, initTask, reader,
                   submitted, sigIn, sigOut>>

\* the call rejected: the error leaves setSupportedAsset at the await
setSupportedAssetThrow ==
    /\ ssaTask.pc = "awaiting"
    /\ ssaTask.tx = 0
    /\ lastOp' = [op |-> "setSupportedAsset", args |-> ssaTask.call.args,
                  calls |-> <<ssaTask.call>>, outcome |-> "error", ret |-> None, tx |-> 0]
    /\ ssaTask' = IdleSsa
    /\ UNCHANGED <<head, txs, events, nextRollupId, supportedAssets, erc20Contracts, initTask,
                   reader, submitted, sigIn, sigOut>>

----------------------------------------------------------------------------
(* Contracts: the asset handle cache *)

IdleInit == [pc |-> "idle", assetAddresses |-> <<>>, pending |-> {}, contracts |-> <<>>,
             calls |-> 0]

\* a promise that has not resolved
NoValue == [unresolved |-> TRUE]
IsResolved(value) == "unresolved" \notin DOMAIN value

\* results in the order in which the promises resolve
PromiseAllStoreByArrival(results, i, value) ==
    LET k == CHOOSE j \in DOMAIN results :
                 /\ ~IsResolved(results[j])
                 /\ \A l \in 1..(j - 1) : IsResolved(results[l])
    IN  [results EXCEPT ![k] = value]

\* Promise.all stores the value of the i-th promise at index i
PromiseAllStore(results, i, value) == [results EXCEPT ![i] = value]

\* init() up to the fan-out: the asset list is read and one permit-support
\* query per asset is started
initCall ==
    /\ initTask.pc = "idle"
    /\ initTask.calls < MaxInits
    /\ initTask' = [initTask EXCEPT
                      !.pc = "permits",
                      !.assetAddresses = [i \in 1..Len(supportedAssets) |->
                                             supportedAssets[i].address],
                      !.pending = 1..Len(supportedAssets),
                      !.contracts = [i \in 1..Len(supportedAssets) |-> NoValue],
                      !.calls = @ + 1]
    /\ UNCHANGED <<head, txs, events, nextRollupId, supportedAssets, erc20Contracts, ssaTask,
                   reader, lastOp, submitted, sigIn, sigOut>>

\* getAssetPermitSupport(index) answers for the asset at position i
initPermitSupport(i) ==
    /\ initTask.pc = "permits"
    /\ i \in initTask.pending
    /\ LET assetPermitSupport == supportedAssets[i].permit
       IN  initTask' = [initTask EXCEPT
                          !.pending = @ \ {i},
                          !.contracts = PromiseAllStore(@, i,
                              NewErc20Contract(initTask.assetAddresses[i], assetPermitSupport))]
    /\ UNCHANGED <<head, txs, events, nextRollupId, supportedAssets, erc20Contracts, ssaTask,
                   reader, lastOp, submitted, sigIn, sigOut>>

\* Promise.all resolved: the cache is assigned
initAssign ==
    /\ initTask.pc = "permits"
    /\ initTask.pending = {}
    /\ erc20Contracts' = initTask.contracts
    /\ initTask' = [initTask EXCEPT !.pc = "idle", !.assetAddresses = <<>>,
                                    !.contracts = <<>>]
    /\ UNCHANGED <<head, txs, events, nextRollupId, supportedAssets, ssaTask, reader, lastOp,
                   submitted, sigIn, sigOut>>

\* getAssetBalance / getUserNonce / getAssetAllowance: the read call that is
\* issued, to this.erc20Contracts[assetId]; an undefined handle is a TypeError
AssetQuery(method, assetId, address) ==
    IF assetId < Len(erc20Contracts)
    THEN [method |-> method, assetId |-> assetId, contract |-> erc20Contracts[assetId + 1],
          args |-> IF method = "allowance" THEN <<address, RollupContractAddress>>
                   ELSE <<address>>]
    ELSE [method |-> method, assetId |-> assetId, contract |-> None, args |-> <<>>]

getAssetBalance(assetId, address) == AssetQuery("balanceOf", assetId, address)

getUserNonce(assetId, address) == AssetQuery("nonces", assetId, address)

getAssetAllowance(assetId, address) == AssetQuery("allowance", assetId, address)

----------------------------------------------------------------------------
(* Contracts: the block reconstructor *)

IdleReader == [pc |-> "idle", rollupId |-> 0, minConfirmations |-> 0, headAtCall |-> 0,
               rollupEvent |-> None, rollupEvents |-> <<>>, pending |-> {},
               txResults |-> <<>>, txs |-> <<>>, blocks |-> <<>>, result |-> <<>>]

\* provider.getTransaction: the transaction of event ev as the node sees it now
TransactionResponse(ev) ==
    [hash |-> TxHash(ev.tx), data |-> txs[ev.tx].data, blockNumber |-> ev.blockNumber,
     confirmations |-> head - ev.blockNumber + 1]

\* the early return left out
NoRollupEventUnchecked(matching) == FALSE

\* if (!rollupEvent) return [];
NoRollupEvent(matching) == matching = <<>>

\* a strict comparison
IsConfirmedStrict(tx, minConfirmations) == tx.confirmations > minConfirmations

\* tx => tx.confirmations >= minConfirmations
IsConfirmed(tx, minConfirmations) == tx.confirmations >= minConfirmations

\* the viewing keys read from the signatures argument
decodeBlockWrongArg(tx) ==
    LET proofDataArg == ParseBytesArg(tx.data, 0)
        viewingKeysArg == ParseBytesArg(tx.data, 1)
        rollupProofData == BufferFromHex(StrSlice2(proofDataArg))
        viewingKeysData == BufferFromHex(StrSlice2(viewingKeysArg))
    IN  [created |-> tx.timestamp * 1000,
         txHash |-> BufferFromHex(StrSlice2(tx.hash)),
         rollupProofData |-> rollupProofData,
         viewingKeysData |-> viewingKeysData,
         rollupId |-> getRollupIdFromBuffer(rollupProofData),
         rollupSize |-> getRollupSizeFromBuffer(rollupProofData)]

decodeBlock(tx) ==
    LET proofDataArg == ParseBytesArg(tx.data, 0)
        viewingKeysArg == ParseBytesArg(tx.data, 3)
        rollupProofData == BufferFromHex(StrSlice2(proofDataArg))
        viewingKeysData == BufferFromHex(StrSlice2(viewingKeysArg))
    IN  [created |-> tx.timestamp * 1000,
         txHash |-> BufferFromHex(StrSlice2(tx.hash)),
         rollupProofData |-> rollupProofData,
         viewingKeysData |-> viewingKeysData,
         rollupId |-> getRollupIdFromBuffer(rollupProofData),
         rollupSize |-> getRollupSizeFromBuffer(rollupProofData)]

getRollupBlocksFromCall(rollupId, minConfirmations) ==
    /\ reader.pc = "idle"
    /\ reader' = [IdleReader EXCEPT !.pc = "first", !.rollupId = rollupId,
                                    !.minConfirmations = minConfirmations,
                                    !.headAtCall = head]
    /\ UNCHANGED <<head, txs, events, nextRollupId, supportedAssets, erc20Contracts, initTask,
                   ssaTask, lastOp, submitted, sigIn, sigOut>>

\* queryFilter(RollupProcessed(rollupId)) answers
readerFirstEvent ==
    /\ reader.pc = "first"
    /\ LET matching == SelectSeq(events, LAMBDA e : e.rollupId = reader.rollupId)
       IN  IF NoRollupEvent(matching)
           THEN reader' = [reader EXCEPT !.pc = "done", !.result = <<>>]
           ELSE IF matching = <<>>
           THEN \* rollupEvent.blockNumber of undefined
                reader' = [reader EXCEPT !.pc = "threw"]
           ELSE reader' = [reader EXCEPT !.pc = "events", !.rollupEvent = matching[1]]
    /\ UNCHANGED <<head, txs, events, nextRollupId, supportedAssets, erc20Contracts, initTask,
                   ssaTask, lastOp, submitted, sigIn, sigOut>>

\* queryFilter(RollupProcessed(), rollupEvent.blockNumber) answers and one
\* getTransaction per event is started
readerEvents ==
    /\ reader.pc = "events"
    /\ LET rollupEvents == SelectSeq(events,
                              LAMBDA e : e.blockNumber >= reader.rollupEvent.blockNumber)
       IN  reader' = [reader EXCEPT !.pc = "txs", !.rollupEvents = rollupEvents,
                                    !.pending = 1..Len(rollupEvents),
                                    !.txResults = [i \in 1..Len(rollupEvents) |-> NoValue]]
    /\ UNCHANGED <<head, txs, events, nextRollupId, supportedAssets, erc20Contracts, initTask,
                   ssaTask, lastOp, submitted, sigIn, sigOut>>

\* event.getTransaction() of the i-th event answers
readerGetTransaction(i) ==
    /\ reader.pc = "txs"
    /\ i \in reader.pending
    /\ reader' = [reader EXCEPT
                    !.pending = @ \ {i},
                    !.txResults = PromiseAllStore(@, i, TransactionResponse(reader.rollupEvents[i]))]
    /\ UNCHANGED <<head, txs, events, nextRollupId, supportedAssets, erc20Contracts, initTask,
                   ssaTask, lastOp, submitted, sigIn, sigOut>>

\* all transactions arrived: filter them and start one getBlock per kept one
readerFilter ==
    /\ reader.pc = "txs"
    /\ reader.pending = {}
    /\ LET kept == SelectSeq(reader.txResults,
                             LAMBDA tx : IsConfirmed(tx, reader.minConfirmations))
       IN  reader' = [reader EXCEPT !.pc = "blocks", !.txs = kept,
                                    !.pending = 1..Len(kept),
                                    !.blocks = [i \in 1..Len(kept) |-> NoValue]]
    /\ UNCHANGED <<head, txs, events, nextRollupId, supportedAssets, erc20Contracts, initTask,
                   ssaTask, lastOp, submitted, sigIn, sigOut>>

\* provider.getBlock(tx.blockNumber) of the i-th kept transaction answers
readerGetBlock(i) ==
    /\ reader.pc = "blocks"
    /\ i \in reader.pending
    /\ LET number == reader.txs[i].blockNumber
       IN  reader' = [reader EXCEPT
                        !.pending = @ \ {i},
                        !.blocks = PromiseAllStore(@, i,
                                      [number |-> number, timestamp |-> BlockTimestamp(number)])]
    /\ UNCHANGED <<head, txs, events, nextRollupId, supportedAssets, erc20Contracts, initTask,
                   ssaTask, lastOp, submitted, sigIn, sigOut>>

\* all blocks arrived: decode
readerDecode ==
    /\ reader.pc = "blocks"
    /\ reader.pending = {}
    /\ reader' = [reader EXCEPT
                    !.pc = "done",
                    !.result = [i \in 1..Len(reader.txs) |->
                                   decodeBlock([hash |-> reader.txs[i].hash,
                                                data |-> reader.txs[i].data,
                                                blockNumber |-> reader.txs[i].blockNumber,
                                                confirmations |-> reader.txs[i].confirmations,
                                                timestamp |-> reader.blocks[i].timestamp])]]
    /\ UNCHANGED <<head, txs, events, nextRollupId, supportedAssets, erc20Contracts, initTask,
                   ssaTask, lastOp, submitted, sigIn, sigOut>>

\* the result, or the error, is handed to the caller
readerReturn ==
    /\ reader.pc \in {"done", "threw"}
    /\ reader' = IdleReader
    /\ UNCHANGED <<head, txs, events, nextRollupId, supportedAssets, erc20Contracts, initTask,
                   ssaTask, lastOp, submitted, sigIn, sigOut>>

\* the reconstructor runs from its last await to the return without a break
ReaderRunning == reader.pc \in {"done", "threw"}

----------------------------------------------------------------------------
(* Inputs *)

VkA == <<7, 8, 9>>
VkB == <<10, 11>>
SigA == MkSig(65, 0, 27)
SigB == MkSig(65, 101, 28)

SendPayloads ==
    { [size |-> 1, signatures |-> <<>>, sigIndexes |-> <<>>, viewingKeys |-> <<>>,
       signingAddress |-> None],
      [size |-> 2, signatures |-> <<SigA>>, sigIndexes |-> <<0>>, viewingKeys |-> <<VkA>>,
       signingAddress |-> OtherAccount],
      [size |-> 4, signatures |-> <<SigA, SigB>>, sigIndexes |-> <<0, 1>>,
       viewingKeys |-> <<VkB, VkA>>, signingAddress |-> None] }

PermitInputs ==
    { NoPermitArgs,
      [deadline |-> 99, approvalAmount |-> 5,
       signature |-> [v |-> <<27>>, r |-> <<1, 2>>, s |-> <<3, 4>>]] }

AssetRecords == {[address |-> TokenA, permit |-> FALSE], [address |-> TokenB, permit |-> TRUE]}

----------------------------------------------------------------------------
(* Specifications *)

InitBase ==
    /\ head = 0
    /\ txs = <<>>
    /\ events = <<>>
    /\ nextRollupId = 0
    /\ supportedAssets = <<>>
    /\ erc20Contracts = <<>>
    /\ initTask = IdleInit
    /\ ssaTask = IdleSsa
    /\ reader = IdleReader
    /\ lastOp = NoOp
    /\ submitted = <<>>
    /\ sigIn = <<>>
    /\ sigOut = [done |-> FALSE, buffer |-> <<>>]

MineBlock == ~ReaderRunning /\ \E sel \in SeqsUpTo(PendingTxs, MaxTxPerBlock) : Mine(sel)

\* a block that holds at least one transaction
MineTxs == \E sel \in SeqsUpTo(PendingTxs, MaxTxPerBlock) : sel # <<>> /\ Mine(sel)

SendRollupProof ==
    \E p \in SendPayloads, accepted \in BOOLEAN :
        sendRollupProof(MkProof(p.size - 1, p.size), p.signatures, p.sigIndexes, p.viewingKeys,
                        p.signingAddress, accepted)

\* the rollup provider submits the proof of the next rollup; rollups of
\* sizes 2, 4 and 1 follow one another
SubmitNextRollup ==
    /\ ~ReaderRunning
    /\ LET id == nextRollupId + Cardinality({n \in PendingTxs : txs[n].kind = "processRollup"})
       IN  \E p \in {q \in SendPayloads : q.size = <<2, 4, 1>>[(id % 3) + 1]} :
            sendRollupProof(MkProof(id, p.size), p.signatures, p.sigIndexes, p.viewingKeys,
                            p.signingAddress, TRUE)

DepositPendingFunds ==
    \E depositor \in {DefaultSigner, OtherAccount}, permitArgs \in PermitInputs,
       accepted \in BOOLEAN :
        depositPendingFunds(1, 7, depositor, permitArgs, accepted)

SetSupportedAssetCall ==
    \E r \in AssetRecords, accepted \in BOOLEAN :
        setSupportedAssetCall(r.address, r.permit,
                              IF r.permit THEN OtherAccount ELSE None, accepted)

\* a registration that the node accepts
RegisterAsset ==
    \E r \in AssetRecords, signingAddress \in {None, OtherAccount} :
        setSupportedAssetCall(r.address, r.permit, signingAddress, TRUE)

InitPermitSupport == \E i \in initTask.pending : initPermitSupport(i)

ExternalAdd == \E r \in AssetRecords : ExternalAddAsset(r.address, r.permit)

GetRollupBlocksFromCall ==
    \E rollupId \in 0..(MaxTxs - 1), minConfirmations \in 0..MaxConfirmations :
        getRollupBlocksFromCall(rollupId, minConfirmations)

ReaderGetTransaction == \E i \in reader.pending : readerGetTransaction(i)
ReaderGetBlock == \E i \in reader.pending : readerGetBlock(i)

\* the signature encoder on its own
FormatSignatures ==
    /\ ~sigOut.done
    /\ sigOut' = [done |-> TRUE, buffer |-> solidityFormatSignatures(sigIn)]
    /\ UNCHANGED <<head, txs, events, nextRollupId, supportedAssets, erc20Contracts, initTask,
                   ssaTask, reader, lastOp, submitted, sigIn>>

InitSig ==
    /\ InitBase!1 /\ InitBase!2 /\ InitBase!3 /\ InitBase!4 /\ InitBase!5 /\ InitBase!6
    /\ InitBase!7 /\ InitBase!8 /\ InitBase!9 /\ InitBase!10 /\ InitBase!11
    /\ sigIn \in SeqsUpTo(SigPool, MaxSigs)
    /\ sigOut = [done |-> FALSE, buffer |-> <<>>]

NextSig == FormatSignatures

SpecSig == InitSig /\ [][NextSig]_vars

\* the asset registry: the chain may hold assets before the client starts
InitAssets ==
    /\ InitBase!1 /\ InitBase!2 /\ InitBase!3 /\ InitBase!4
    /\ supportedAssets \in SeqsUpTo(AssetRecords, MaxAssets - 1)
    /\ InitBase!6 /\ InitBase!7 /\ InitBase!8 /\ InitBase!9 /\ InitBase!10 /\ InitBase!11
    /\ InitBase!12 /\ InitBase!13

NextAssets ==
    \/ initCall
    \/ InitPermitSupport
    \/ initAssign
    \/ RegisterAsset
    \/ setSupportedAssetResume
    \/ MineTxs
    \/ ExternalAdd

SpecAssets == InitAssets /\ [][NextAssets]_vars

\* the state-changing operations
NextWrites ==
    \/ SetSupportedAssetCall
    \/ setSupportedAssetResume
    \/ setSupportedAssetThrow
    \/ SendRollupProof
    \/ DepositPendingFunds

SpecWrites == InitBase /\ [][NextWrites]_vars

\* proof submission, the chain and the block reconstructor
NextBlocks ==
    \/ SubmitNextRollup
    \/ MineBlock
    \/ GetRollupBlocksFromCall
    \/ readerFirstEvent
    \/ readerEvents
    \/ ReaderGetTransaction
    \/ readerFilter
    \/ ReaderGetBlock
    \/ readerDecode
    \/ readerReturn

SpecBlocks == InitBase /\ [][NextBlocks]_vars

----------------------------------------------------------------------------
(* Properties *)

IsPrefix(s, t) == Len(s) <= Len(t) /\ \A i \in 1..Len(s) : s[i] = t[i]

AllSignatures65 == \A i \in 1..Len(sigIn) : Len(sigIn[i]) = 65

\* C4: the encoding of n 65-byte signatures has 96n bytes; for every i < n
\* bytes [96i, 96i+64) are bytes [0, 64) of signature i, bytes
\* [96i+64, 96i+95) are zero and byte 96i+95 is byte 64 (v) of signature i.
C4_SignatureLayout ==
    (sigOut.done /\ AllSignatures65) =>
        /\ Len(sigOut.buffer) = 96 * Len(sigIn)
        /\ \A i \in 0..(Len(sigIn) - 1) :
              /\ \A k \in 0..63 : sigOut.buffer[96 * i + k + 1] = sigIn[i + 1][k + 1]
              /\ \A k \in 64..94 : sigOut.buffer[96 * i + k + 1] = 0
              /\ sigOut.buffer[96 * i + 95 + 1] = sigIn[i + 1][64 + 1]

C4_Witness ==
    /\ sigOut.done
    /\ AllSignatures65
    /\ Len(sigIn) = 2
    /\ sigIn[1] # sigIn[2]

\* C3: depositPendingFunds issues exactly one contract call, signed by the
\* depositor; it is depositPendingFundsPermit with approvalAmount, deadline,
\* v, r and s exactly when permitArgs is supplied, and depositPendingFunds
\* otherwise.
C3_DepositCallShape ==
    lastOp.op = "depositPendingFunds" =>
        LET a == lastOp.args
            permit == a.permitArgs # NoPermitArgs
        IN  /\ Len(lastOp.calls) = 1
            /\ lastOp.calls[1].signer = a.depositorAddress
            /\ lastOp.calls[1].method \in {"depositPendingFunds", "depositPendingFundsPermit"}
            /\ permit <=> lastOp.calls[1].method = "depositPendingFundsPermit"
            /\ permit =>
                  /\ Len(lastOp.calls[1].args) = 9
                  /\ lastOp.calls[1].args[5] = a.permitArgs.approvalAmount
                  /\ lastOp.calls[1].args[6] = a.permitArgs.deadline
                  /\ lastOp.calls[1].args[7] = a.permitArgs.signature.v
                  /\ lastOp.calls[1].args[8] = a.permitArgs.signature.r
                  /\ lastOp.calls[1].args[9] = a.permitArgs.signature.s

C3_Witness ==
    /\ lastOp.op = "depositPendingFunds"
    /\ lastOp.args.permitArgs # NoPermitArgs
    /\ lastOp.outcome = "ok"

\* a state-changing operation ends with an error in this step
FailedStep ==
    \/ ssaTask.pc = "awaiting" /\ ssaTask.tx = 0 /\ ssaTask'.pc = "idle"
    \/ ssaTask.pc = "idle" /\ ssaTask'.pc = "awaiting" /\ ssaTask'.tx = 0
    \/ ssaTask' = ssaTask /\ Len(txs') = Len(txs) /\ lastOp'.outcome = "error"

C8_Outcome ==
    lastOp.op # None =>
        /\ Len(lastOp.calls) <= 1
        /\ lastOp.outcome \in {"ok", "error"}
        /\ lastOp.outcome = "ok" =>
              /\ Len(lastOp.calls) = 1
              /\ lastOp.tx \in 1..Len(txs)
              /\ Len(lastOp.ret) = 32
              /\ lastOp.ret = TxHashBytes(lastOp.tx)
        /\ lastOp.outcome = "error" => lastOp.tx = 0 /\ lastOp.ret = None

\* C8: setSupportedAsset, sendRollupProof and depositPendingFunds issue at
\* most one state-changing call and end either with the 32-byte identifier of
\* the submitted transaction or with an error; an operation that fails
\* submits nothing and leaves the cached handle sequence unchanged.
C8_SubmitOrFail ==
    /\ []C8_Outcome
    /\ [][FailedStep => UNCHANGED <<erc20Contracts, txs>>]_vars

C8_Witness ==
    /\ lastOp.op = "setSupportedAsset"
    /\ lastOp.outcome = "error"
    /\ erc20Contracts # <<>>
    /\ \E n \in PendingTxs : txs[n].kind = "setSupportedAsset"

\* the RollupProcessed events that a call started now would have to report
EventOf(rollupId) == CHOOSE k \in 1..Len(events) : events[k].rollupId = rollupId
HasEvent(rollupId) == \E k \in 1..Len(events) : events[k].rollupId = rollupId
Confirmations(k) == head - events[k].blockNumber + 1
InRange(k) == events[k].blockNumber >= events[EventOf(reader.rollupId)].blockNumber
BlocksOf(k) == {i \in 1..Len(reader.result) : reader.result[i].txHash = TxHashBytes(events[k].tx)}

\* C1: when an event for rollupId exists, the result holds exactly one block
\* for every RollupProcessed event from that event's block to the chain head
\* whose transaction has at least minConfirmations confirmations, and no
\* block for any other transaction (the chain not moving during the call).
C1_ConfirmedBlocks ==
    (reader.pc = "done" /\ head = reader.headAtCall /\ HasEvent(reader.rollupId)) =>
        /\ \A k \in 1..Len(events) :
              Cardinality(BlocksOf(k)) =
                  IF InRange(k) /\ Confirmations(k) >= reader.minConfirmations THEN 1 ELSE 0
        /\ \A i \in 1..Len(reader.result) : \E k \in 1..Len(events) : i \in BlocksOf(k)

C1_Witness ==
    /\ reader.pc = "done"
    /\ head = reader.headAtCall
    /\ HasEvent(reader.rollupId)
    /\ Len(reader.result) = 1
    /\ \E k \in 1..Len(events) : InRange(k) /\ Confirmations(k) < reader.minConfirmations
    /\ \E k \in 1..Len(events) : InRange(k) /\ Confirmations(k) = reader.minConfirmations

\* the transaction whose identifier a block carries
TxOfBlock(block) == CHOOSE n \in 1..Len(txs) : TxHashBytes(n) = block.txHash
EventIndexOfTx(n) == CHOOSE k \in 1..Len(events) : events[k].tx = n

\* C2: whatever the order in which the lookups complete, the blocks come in
\* the order of the on-chain events, and each block carries the hash, the
\* proof data and the timestamp of the containing block of one and the same
\* transaction.
C2_OrderAndPairing ==
    reader.pc = "done" =>
        /\ \A i \in 1..Len(reader.result) :
              /\ \E n \in 1..Len(txs) : TxHashBytes(n) = reader.result[i].txHash
              /\ LET n == TxOfBlock(reader.result[i])
                 IN  /\ \E k \in 1..Len(events) : events[k].tx = n
                     /\ reader.result[i].created = 1000 * BlockTimestamp(txs[n].blockNumber)
                     /\ reader.result[i].rollupProofData = submitted[n].args.proofData
        /\ \A i, j \in 1..Len(reader.result) :
              i < j => EventIndexOfTx(TxOfBlock(reader.result[i]))
                          < EventIndexOfTx(TxOfBlock(reader.result[j]))

C2_Witness ==
    /\ reader.pc = "done"
    /\ Len(reader.result) = 2
    /\ reader.result[1].created # reader.result[2].created

\* the buffers of a list, one after the other
RECURSIVE InOrder(_)
InOrder(list) ==
    IF list = <<>> THEN <<>>
    ELSE InOrder(SubSeq(list, 1, Len(list) - 1)) \o list[Len(list)]

\* C6: a block rebuilt from a transaction that sendRollupProof(P, ..., K)
\* submitted has rollupProofData = P, viewingKeysData = the buffers of K in
\* order, txHash = the identifier that sendRollupProof returned, and the
\* rollup id and size that P holds.
C6_RoundTrip ==
    reader.pc = "done" =>
        \A i \in 1..Len(reader.result) :
            \E n \in 1..Len(txs) :
                /\ txs[n].kind = "processRollup"
                /\ reader.result[i].txHash = submitted[n].ret
                /\ reader.result[i].rollupProofData = submitted[n].args.proofData
                /\ reader.result[i].viewingKeysData = InOrder(submitted[n].args.viewingKeys)
                /\ reader.result[i].rollupId = getRollupIdFromBuffer(submitted[n].args.proofData)
                /\ reader.result[i].rollupSize = getRollupSizeFromBuffer(submitted[n].args.proofData)

C6_Witness ==
    /\ reader.pc = "done"
    /\ Len(reader.result) = 2
    /\ reader.result[2].viewingKeysData = VkB \o VkA
    /\ reader.result[2].rollupId = 1
    /\ reader.result[2].rollupSize = 4

\* C7: a call for a rollup id that no event matches, or whose events all
\* belong to transactions with fewer than minConfirmations confirmations,
\* returns the empty sequence and raises no error.
C7_EmptyNotError ==
    reader.pc \in {"done", "threw"} =>
        ((\/ ~HasEvent(reader.rollupId)
          \/ \A k \in 1..Len(events) : InRange(k) => Confirmations(k) < reader.minConfirmations)
            => reader.pc = "done" /\ reader.result = <<>>)

C7_Witness ==
    /\ reader.pc = "done"
    /\ reader.result = <<>>
    /\ events # <<>>
    /\ ~HasEvent(reader.rollupId)

\* C10: no block of the result is older than the requested rollup.
C10_NoEarlierRollup ==
    reader.pc = "done" =>
        \A i \in 1..Len(reader.result) : reader.result[i].rollupId >= reader.rollupId

\* an init() call has completed and none is running
InitCompleted == initTask.calls >= 1 /\ initTask.pc = "idle"

\* an init() call has completed at some earlier moment
InitCompletedOnce == initTask.calls >= 2 \/ InitCompleted

\* C5: the handle at cache position i is the handle of the asset with
\* on-chain asset id i (same address, same permit variant), so a balance,
\* nonce or allowance query for assetId goes to the contract of that asset.
C5_StableIndex ==
    InitCompleted =>
        \A i \in 1..Len(erc20Contracts) :
            i <= Len(supportedAssets) =>
                /\ erc20Contracts[i]
                      = NewErc20Contract(supportedAssets[i].address, supportedAssets[i].permit)
                /\ getAssetBalance(i - 1, OtherAccount).contract.address
                      = supportedAssets[i].address
                /\ getUserNonce(i - 1, OtherAccount).contract.address
                      = supportedAssets[i].address
                /\ getAssetAllowance(i - 1, OtherAccount).contract.address
                      = supportedAssets[i].address

\* C9: once init has completed the cache only grows at its end, and a
\* setSupportedAsset appends exactly one handle, after its call completed.
C9_AppendOnly ==
    [][InitCompletedOnce =>
          /\ IsPrefix(erc20Contracts, erc20Contracts')
          /\ erc20Contracts' # erc20Contracts =>
                /\ ssaTask.pc = "awaiting" /\ ssaTask.tx # 0 /\ ssaTask'.pc = "idle"
                /\ Len(erc20Contracts') = Len(erc20Contracts) + 1]_vars

====
